---------------------------- MODULE Spec2Model ----------------------------
(* Chippy, a CHIP-8 emulator (src/src/main.rs): the Chip8 machine, its     *)
(* fetch / decode / execute cycle and the host loop that drives it.        *)
EXTENDS Integers, Sequences, FiniteSets, TLC

VARIABLES
    chippy,           \* the Chip8 value owned by main (all of its fields)
    overflow_checks,  \* build profile: TRUE = arithmetic overflow panics (debug)
    main_pc,          \* position of main: "load_rom" or "event_loop"
    opcode,           \* history: the opcode fetched by the last cycle (-1: none)
    pre,              \* history: chippy as it was before the last cycle
    calls,            \* history: the calls still open, oldest first
    returned,         \* history: the call closed by the last cycle, if any
    saved,            \* history: what the last Fx55 stored, while still intact
    rom_file,         \* history: the bytes main read from the ROM file
    armed             \* history: per timer, the value last written to it by
                      \* Fx15 / Fx18 and the cycles completed since (up to it)

vars == <<chippy, overflow_checks, main_pc, opcode, pre, calls, returned, saved,
          rom_file, armed>>

\* ------------------------------------------------------------------ bounds

\* Register values tried: within Edge of 0, of the sign bit and of 255.
Edge == 1

\* Cycles the delay timer counts while Fx0A waits.
MaxWait == 5

\* Deepest chain of nested calls tried (the stack holds 16).
MaxDepth == 17

\* --------------------------------------------------------- program constants

VIDEO_WIDTH == 64
VIDEO_HEIGHT == 32
FONTSET_START_ADDRESS == \h50
ROM_START_ADDRESS == \h200
MEMORY_SIZE == 4096
STACK_SIZE == 16
U8 == 256

\* ------------------------------------------------------ machine arithmetic

RECURSIVE BitAnd(_, _)
BitAnd(a, b) ==
    IF a = 0 \/ b = 0 THEN 0
    ELSE (a % 2) * (b % 2) + 2 * BitAnd(a \div 2, b \div 2)

RECURSIVE BitOr(_, _)
BitOr(a, b) ==
    IF a = 0 THEN b
    ELSE IF b = 0 THEN a
    ELSE (IF a % 2 = 1 \/ b % 2 = 1 THEN 1 ELSE 0) + 2 * BitOr(a \div 2, b \div 2)

RECURSIVE BitXor(_, _)
BitXor(a, b) ==
    IF a = 0 THEN b
    ELSE IF b = 0 THEN a
    ELSE ((a + b) % 2) + 2 * BitXor(a \div 2, b \div 2)

Shr(a, n) == a \div (2 ^ n)

\* `v as u8`: the low eight bits.
AsU8(v) == v % U8

\* A u32 as its upper 24 and lower 8 bits: `b as u32` of a byte, the literal
\* 0xFFFFFFFF, `^` and `w as u8`.
U8AsU32(b) == [hi |-> 0, lo |-> b]
LOW_BIT_U32 == [hi |-> 0, lo |-> 1]
ALL_ONES_U32 == [hi |-> \hFFFFFF, lo |-> \hFF]
XorU32(v, w) == [hi |-> BitXor(v.hi, w.hi), lo |-> BitXor(v.lo, w.lo)]
U32AsU8(w) == w.lo

\* usize::MAX = 2^64 - 1 = 18446744073709551615, the value 0 - 1 wraps to in
\* usize. It is beyond the integers the model checker holds, so a usize is
\* kept as its residue modulo 2^64 nearest 0: usize::MAX is -1.
USIZE_MAX == -1

\* The thread panics: the process ends with the machine as it then is.
Panic(m) == [m EXCEPT !.panicked = TRUE]

\* Operand fields of an opcode.
VxOf(op) == Shr(BitAnd(op, \h0F00), 8)
VyOf(op) == Shr(BitAnd(op, \h00F0), 4)
ByteOf(op) == BitAnd(op, \h00FF)
AddressOf(op) == BitAnd(op, \h0FFF)

\* ------------------------------------------------------------ construction

fontset ==
    << \hF0, \h90, \h90, \h90, \hF0,
       \h20, \h60, \h20, \h20, \h70,
       \hF0, \h10, \hF0, \h80, \hF0,
       \hF0, \h10, \hF0, \h10, \hF0,
       \h90, \h90, \hF0, \h10, \h10,
       \hF0, \h80, \hF0, \h10, \hF0,
       \hF0, \h80, \hF0, \h90, \hF0,
       \hF0, \h10, \h20, \h40, \h40,
       \hF0, \h90, \hF0, \h90, \hF0,
       \hF0, \h90, \hF0, \h10, \hF0,
       \hF0, \h90, \hF0, \h90, \h90,
       \hE0, \h90, \hE0, \h90, \hE0,
       \hF0, \h80, \h80, \h80, \hF0,
       \hE0, \h90, \h90, \h90, \hE0,
       \hF0, \h80, \hF0, \h80, \hF0,
       \hF0, \h80, \hF0, \h80, \h80 >>

new ==
    [ index |-> 0,
      program_counter |-> ROM_START_ADDRESS,
      stack |-> [i \in 0..(STACK_SIZE - 1) |-> 0],
      stack_pointer |-> 0,
      delay_timer |-> 0,
      sound_timer |-> 0,
      registers |-> [i \in 0..15 |-> 0],
      memory |-> [a \in 0..(MEMORY_SIZE - 1) |-> 0],
      display_memory |-> [p \in 0..(VIDEO_WIDTH * VIDEO_HEIGHT - 1) |-> 0],
      keypad |-> [k \in 0..15 |-> FALSE],
      rng |-> 0,
      panicked |-> FALSE ]

load_fontset_off_by_one(m) ==
    [m EXCEPT !.memory =
        [a \in 0..(MEMORY_SIZE - 1) |->
            IF a > FONTSET_START_ADDRESS /\ a <= FONTSET_START_ADDRESS + Len(fontset)
            THEN fontset[a - FONTSET_START_ADDRESS]
            ELSE m.memory[a]]]

load_fontset(m) ==
    [m EXCEPT !.memory =
        [a \in 0..(MEMORY_SIZE - 1) |->
            IF a >= FONTSET_START_ADDRESS /\ a < FONTSET_START_ADDRESS + Len(fontset)
            THEN fontset[a - FONTSET_START_ADDRESS + 1]
            ELSE m.memory[a]]]

initialize == load_fontset(new)

load_rom_short(m, rom_contents) ==
    [m EXCEPT !.memory =
        [a \in 0..(MEMORY_SIZE - 1) |->
            IF a >= ROM_START_ADDRESS /\ a < ROM_START_ADDRESS + Len(rom_contents) - 1
            THEN rom_contents[a - ROM_START_ADDRESS + 1]
            ELSE m.memory[a]]]

\* load_rom: the bytes are copied one by one; a write past the end of memory
\* panics with the earlier bytes already written.
load_rom(m, rom_contents) ==
    LET fits == IF Len(rom_contents) <= MEMORY_SIZE - ROM_START_ADDRESS
                THEN Len(rom_contents) ELSE MEMORY_SIZE - ROM_START_ADDRESS
        mem == [a \in 0..(MEMORY_SIZE - 1) |->
                    IF a >= ROM_START_ADDRESS /\ a < ROM_START_ADDRESS + fits
                    THEN rom_contents[a - ROM_START_ADDRESS + 1]
                    ELSE m.memory[a]]
        m1 == [m EXCEPT !.memory = mem]
    IN  IF fits < Len(rom_contents) THEN Panic(m1) ELSE m1

\* ------------------------------------------------------------ instructions

opcode_00e0_short(m) ==
    [m EXCEPT !.display_memory =
        [p \in 0..(64 * 32 - 1) |-> IF p < 32 * 32 THEN 0 ELSE m.display_memory[p]]]

\* CLS
opcode_00e0(m) ==
    [m EXCEPT !.display_memory = [p \in 0..(64 * 32 - 1) |-> 0]]

opcode_00ee_stale_slot(m) ==
    IF m.stack_pointer = 0 \/ m.stack_pointer > STACK_SIZE - 1 THEN Panic(m)
    ELSE [m EXCEPT !.stack_pointer = m.stack_pointer - 1,
                   !.program_counter = m.stack[m.stack_pointer]]

\* RET: on an empty stack the decrement underflows. With overflow checks that
\* is the panic, stack_pointer still 0; without them stack_pointer wraps to
\* usize::MAX and the stack index that follows panics.
opcode_00ee(m) ==
    IF m.stack_pointer = 0
    THEN IF overflow_checks THEN Panic(m)
         ELSE Panic([m EXCEPT !.stack_pointer = USIZE_MAX])
    ELSE LET sp == m.stack_pointer - 1
         IN  IF sp > STACK_SIZE - 1
             THEN Panic([m EXCEPT !.stack_pointer = sp])
             ELSE [m EXCEPT !.stack_pointer = sp,
                            !.program_counter = m.stack[sp]]

\* JP addr
opcode_1nnn(m, op) ==
    [m EXCEPT !.program_counter = AddressOf(op)]

\* CALL addr
opcode_2nnn(m, op) ==
    IF m.stack_pointer > STACK_SIZE - 1 THEN Panic(m)
    ELSE [m EXCEPT !.stack[m.stack_pointer] = m.program_counter,
                   !.stack_pointer = m.stack_pointer + 1,
                   !.program_counter = AddressOf(op)]

\* SE Vx, byte
opcode_3xkk(m, op) ==
    IF m.registers[VxOf(op)] = AsU8(ByteOf(op))
    THEN [m EXCEPT !.program_counter = m.program_counter + 2]
    ELSE m

opcode_4xkk_on_equal(m, op) ==
    IF m.registers[VxOf(op)] = AsU8(ByteOf(op))
    THEN [m EXCEPT !.program_counter = m.program_counter + 2]
    ELSE m

\* SNE Vx, byte
opcode_4xkk(m, op) ==
    IF m.registers[VxOf(op)] # AsU8(ByteOf(op))
    THEN [m EXCEPT !.program_counter = m.program_counter + 2]
    ELSE m

\* SE Vx, Vy
opcode_5xy0(m, op) ==
    IF m.registers[VxOf(op)] = m.registers[VyOf(op)]
    THEN [m EXCEPT !.program_counter = m.program_counter + 2]
    ELSE m

\* LD Vx, byte
opcode_6xkk(m, op) ==
    [m EXCEPT !.registers[VxOf(op)] = AsU8(ByteOf(op))]

\* ADD Vx, byte (in u16, reduced mod 256)
opcode_7xkk(m, op) ==
    [m EXCEPT !.registers[VxOf(op)] = AsU8((m.registers[VxOf(op)] + ByteOf(op)) % 256)]

\* LD Vx, Vy
opcode_8xy0(m, op) ==
    [m EXCEPT !.registers[VxOf(op)] = m.registers[VyOf(op)]]

\* OR Vx, Vy
opcode_8xy1(m, op) ==
    [m EXCEPT !.registers[VxOf(op)] = BitOr(m.registers[VxOf(op)], m.registers[VyOf(op)])]

\* AND Vx, Vy
opcode_8xy2(m, op) ==
    [m EXCEPT !.registers[VxOf(op)] = BitAnd(m.registers[VxOf(op)], m.registers[VyOf(op)])]

\* XOR Vx, Vy
opcode_8xy3(m, op) ==
    [m EXCEPT !.registers[VxOf(op)] = BitXor(m.registers[VxOf(op)], m.registers[VyOf(op)])]

\* ADD Vx, Vy: the sum is reduced mod 256 before the carry test.
opcode_8xy4(m, op) ==
    LET vx == VxOf(op)
        vy == VyOf(op)
        sum == (m.registers[vx] + m.registers[vy]) % 256
        flagged == [m.registers EXCEPT ![15] = IF sum > 255 THEN 1 ELSE 0]
    IN  [m EXCEPT !.registers = [flagged EXCEPT ![vx] = BitAnd(AsU8(sum), \hFF)]]

\* SUB Vx, Vy: VF is written first, the operands are read after it.
opcode_8xy5(m, op) ==
    LET vx == VxOf(op)
        vy == VyOf(op)
    IN  IF m.registers[vx] > m.registers[vy]
        THEN LET flagged == [m.registers EXCEPT ![15] = 1]
                 d == flagged[vx] - flagged[vy]
             IN  IF d < 0 /\ overflow_checks
                 THEN Panic([m EXCEPT !.registers = flagged])
                 ELSE [m EXCEPT !.registers = [flagged EXCEPT ![vx] = AsU8(d + U8)]]
        ELSE LET flagged == [m.registers EXCEPT ![15] = 0]
                 d == flagged[vy] - flagged[vx]
                 diff == AsU8(d + U8)
             IN  IF d < 0 /\ overflow_checks
                 THEN Panic([m EXCEPT !.registers = flagged])
                 ELSE [m EXCEPT !.registers = [flagged EXCEPT ![vx] = AsU8(256 - diff)]]

\* SHR Vx: the bit saved is the low bit of the register number.
opcode_8xy6(m, op) ==
    LET vx == VxOf(op)
        lsb == BitAnd(vx, 1)
        flagged == [m.registers EXCEPT ![15] = AsU8(lsb)]
    IN  [m EXCEPT !.registers = [flagged EXCEPT ![vx] = Shr(flagged[vx], 1)]]

\* SUBN Vx, Vy: an unguarded u8 subtraction.
opcode_8xy7(m, op) ==
    LET vx == VxOf(op)
        vy == VyOf(op)
        flagged == [m.registers EXCEPT
                        ![15] = IF m.registers[vy] > m.registers[vx] THEN 1 ELSE 0]
        d == flagged[vy] - flagged[vx]
    IN  IF d < 0 /\ overflow_checks
        THEN Panic([m EXCEPT !.registers = flagged])
        ELSE [m EXCEPT !.registers = [flagged EXCEPT ![vx] = AsU8(d + U8)]]

\* SHL Vx
opcode_8xye(m, op) ==
    LET vx == VxOf(op)
        msb == Shr(BitAnd(m.registers[vx], \h80), 7)
        flagged == [m.registers EXCEPT ![15] = msb]
    IN  [m EXCEPT !.registers = [flagged EXCEPT ![vx] = AsU8(flagged[vx] * 2)]]

\* SNE Vx, Vy
opcode_9xy0(m, op) ==
    IF m.registers[VxOf(op)] # m.registers[VyOf(op)]
    THEN [m EXCEPT !.program_counter = m.program_counter + 2]
    ELSE m

\* LD I, addr
opcode_annn(m, op) ==
    [m EXCEPT !.index = AddressOf(op)]

\* JP V0, addr: the address is cut to u8 and added to V0 in u8.
opcode_bnnn(m, op) ==
    LET target == m.registers[0] + AsU8(AddressOf(op))
    IN  IF target > 255 /\ overflow_checks THEN Panic(m)
        ELSE [m EXCEPT !.program_counter = AsU8(target)]

opcode_cxkk_or(m, op) ==
    [m EXCEPT !.registers[VxOf(op)] = BitOr(m.rng, AsU8(ByteOf(op)))]

\* RND Vx, byte
opcode_cxkk(m, op) ==
    [m EXCEPT !.registers[VxOf(op)] = BitAnd(m.rng, AsU8(ByteOf(op)))]

draw_pixel_set(d, sprite_pixel, pos) ==
    IF pos > VIDEO_WIDTH * VIDEO_HEIGHT - 1 THEN [d EXCEPT !.panicked = TRUE]
    ELSE IF sprite_pixel # 0 THEN [d EXCEPT !.display[pos] = \hFF] ELSE d

\* DRW: one pixel of the sprite, k = 8 * row + col; d carries the display, VF
\* and whether an index went out of range.
draw_pixel(d, sprite_pixel, pos) ==
    IF pos > VIDEO_WIDTH * VIDEO_HEIGHT - 1 THEN [d EXCEPT !.panicked = TRUE]
    ELSE LET screen_pixel == U8AsU32(d.display[pos])
         IN  IF sprite_pixel # 0
             THEN [d EXCEPT
                     !.vf = IF screen_pixel = ALL_ONES_U32 THEN 1 ELSE d.vf,
                     !.display[pos] = U32AsU8(XorU32(screen_pixel, ALL_ONES_U32))]
             ELSE d

RECURSIVE draw_rows(_, _, _, _, _, _)
draw_rows(d, m, x_pos, y_pos, height, k) ==
    IF d.panicked \/ k >= 8 * height THEN d
    ELSE LET row == k \div 8
             col == k % 8
         IN  IF m.index + row > MEMORY_SIZE - 1 THEN [d EXCEPT !.panicked = TRUE]
             ELSE LET sprite_byte == m.memory[m.index + row]
                      sprite_pixel == BitAnd(sprite_byte, Shr(\h80, col))
                      pos == (y_pos + row) * VIDEO_WIDTH + (x_pos + col)
                  IN  draw_rows(draw_pixel(d, sprite_pixel, pos),
                                m, x_pos, y_pos, height, k + 1)

opcode_dxyn(m, op) ==
    LET vx == VxOf(op)
        vy == VyOf(op)
        height == BitAnd(op, \h000F)
        x_pos == m.registers[vx] % VIDEO_WIDTH
        y_pos == m.registers[vy] % VIDEO_HEIGHT
        d == draw_rows([display |-> m.display_memory, vf |-> 0, panicked |-> FALSE],
                       m, x_pos, y_pos, height, 0)
    IN  [m EXCEPT !.registers[15] = d.vf,
                  !.display_memory = d.display,
                  !.panicked = d.panicked]

\* SKP Vx
opcode_ex9e(m, op) ==
    LET key == m.registers[VxOf(op)]
    IN  IF key > 15 THEN Panic(m)
        ELSE IF m.keypad[key]
             THEN [m EXCEPT !.program_counter = m.program_counter + 2]
             ELSE m

\* SKNP Vx
opcode_exa1(m, op) ==
    LET key == m.registers[VxOf(op)]
    IN  IF key > 15 THEN Panic(m)
        ELSE IF ~m.keypad[key]
             THEN [m EXCEPT !.program_counter = m.program_counter + 2]
             ELSE m

\* LD Vx, DT
opcode_fx07(m, op) ==
    [m EXCEPT !.registers[VxOf(op)] = m.delay_timer]

opcode_fx0a_last_key(m, op) ==
    LET pressed == {k \in 0..15 : m.keypad[k]}
    IN  IF pressed # {}
        THEN [m EXCEPT !.registers[VxOf(op)] =
                 CHOOSE k \in pressed : \A j \in pressed : k >= j]
        ELSE [m EXCEPT !.program_counter = m.program_counter - 2]

\* LD Vx, K: the if-chain takes the first pressed key from 0x0 up; with none
\* pressed the program counter is put back on this instruction.
opcode_fx0a(m, op) ==
    LET pressed == {k \in 0..15 : m.keypad[k]}
    IN  IF pressed # {}
        THEN [m EXCEPT !.registers[VxOf(op)] =
                 CHOOSE k \in pressed : \A j \in pressed : k <= j]
        ELSE IF m.program_counter < 2 /\ overflow_checks THEN Panic(m)
        ELSE [m EXCEPT !.program_counter = m.program_counter - 2]

\* LD DT, Vx
opcode_fx15(m, op) ==
    [m EXCEPT !.delay_timer = m.registers[VxOf(op)]]

\* LD ST, Vx
opcode_fx18(m, op) ==
    [m EXCEPT !.sound_timer = m.registers[VxOf(op)]]

\* ADD I, Vx
opcode_fx1e(m, op) ==
    [m EXCEPT !.index = m.index + m.registers[VxOf(op)]]

opcode_fx29_unscaled(m, op) ==
    LET digit == m.registers[VxOf(op)]
        address == FONTSET_START_ADDRESS + digit
    IN  IF address > 255 /\ overflow_checks THEN Panic(m)
        ELSE [m EXCEPT !.index = AsU8(address)]

\* LD F, Vx: computed in u8.
opcode_fx29(m, op) ==
    LET digit == m.registers[VxOf(op)]
        scaled == 5 * digit
        address == FONTSET_START_ADDRESS + AsU8(scaled)
    IN  IF (scaled > 255 \/ address > 255) /\ overflow_checks THEN Panic(m)
        ELSE [m EXCEPT !.index = AsU8(address)]

opcode_fx33_ones_first(m, op) ==
    LET value == m.registers[VxOf(op)]
    IN  IF m.index + 2 > MEMORY_SIZE - 1 THEN Panic(m)
        ELSE [m EXCEPT !.memory[m.index] = value % 10,
                       !.memory[m.index + 1] = (value \div 10) % 10,
                       !.memory[m.index + 2] = ((value \div 10) \div 10) % 10]

\* LD B, Vx: ones first, at I + 2.
opcode_fx33(m, op) ==
    LET value == m.registers[VxOf(op)]
    IN  IF m.index + 2 > MEMORY_SIZE - 1 THEN Panic(m)
        ELSE [m EXCEPT !.memory[m.index + 2] = value % 10,
                       !.memory[m.index + 1] = (value \div 10) % 10,
                       !.memory[m.index] = ((value \div 10) \div 10) % 10]

opcode_fx55_exclusive(m, op) ==
    LET vx == VxOf(op)
        mem == [a \in 0..(MEMORY_SIZE - 1) |->
                    IF a >= m.index /\ a < m.index + vx
                    THEN m.registers[a - m.index]
                    ELSE m.memory[a]]
        m1 == [m EXCEPT !.memory = mem]
    IN  IF m.index + vx > MEMORY_SIZE - 1 THEN Panic(m1) ELSE m1

\* LD [I], Vx: the registers that fit are written before an out-of-range write
\* panics.
opcode_fx55(m, op) ==
    LET vx == VxOf(op)
        mem == [a \in 0..(MEMORY_SIZE - 1) |->
                    IF a >= m.index /\ a <= m.index + vx
                    THEN m.registers[a - m.index]
                    ELSE m.memory[a]]
        m1 == [m EXCEPT !.memory = mem]
    IN  IF m.index + vx > MEMORY_SIZE - 1 THEN Panic(m1) ELSE m1

\* LD Vx, [I]
opcode_fx65(m, op) ==
    LET vx == VxOf(op)
        regs == [i \in 0..15 |->
                    IF i <= vx /\ m.index + i <= MEMORY_SIZE - 1
                    THEN m.memory[m.index + i]
                    ELSE m.registers[i]]
        m1 == [m EXCEPT !.registers = regs]
    IN  IF m.index + vx > MEMORY_SIZE - 1 THEN Panic(m1) ELSE m1

\* --------------------------------------------------------------- the cycle

decode_and_execute(m, op) ==
    IF op = \h00E0 THEN opcode_00e0(m)
    ELSE IF op = \h00EE THEN opcode_00ee(m)
    ELSE LET family == BitAnd(op, \hF000)
             low4 == BitAnd(op, \h000F)
             low8 == BitAnd(op, \h00FF)
         IN  CASE family = \h1000 -> opcode_1nnn(m, op)
               [] family = \h2000 -> opcode_2nnn(m, op)
               [] family = \h3000 -> opcode_3xkk(m, op)
               [] family = \h4000 -> opcode_4xkk(m, op)
               [] family = \h5000 -> opcode_5xy0(m, op)
               [] family = \h6000 -> opcode_6xkk(m, op)
               [] family = \h7000 -> opcode_7xkk(m, op)
               [] family = \h8000 ->
                    CASE low4 = \h0 -> opcode_8xy0(m, op)
                      [] low4 = \h1 -> opcode_8xy1(m, op)
                      [] low4 = \h2 -> opcode_8xy2(m, op)
                      [] low4 = \h3 -> opcode_8xy3(m, op)
                      [] low4 = \h4 -> opcode_8xy4(m, op)
                      [] low4 = \h5 -> opcode_8xy5(m, op)
                      [] low4 = \h6 -> opcode_8xy6(m, op)
                      [] low4 = \h7 -> opcode_8xy7(m, op)
                      [] low4 = \hE -> opcode_8xye(m, op)
                      [] OTHER -> m
               [] family = \h9000 -> opcode_9xy0(m, op)
               [] family = \hA000 -> opcode_annn(m, op)
               [] family = \hB000 -> opcode_bnnn(m, op)
               [] family = \hC000 -> opcode_cxkk(m, op)
               [] family = \hD000 -> opcode_dxyn(m, op)
               [] family = \hE000 ->
                    CASE low8 = \h9E -> opcode_ex9e(m, op)
                      [] low8 = \hA1 -> opcode_exa1(m, op)
                      [] OTHER -> m
               [] family = \hF000 ->
                    CASE low8 = \h07 -> opcode_fx07(m, op)
                      [] low8 = \h0A -> opcode_fx0a(m, op)
                      [] low8 = \h15 -> opcode_fx15(m, op)
                      [] low8 = \h18 -> opcode_fx18(m, op)
                      [] low8 = \h1E -> opcode_fx1e(m, op)
                      [] low8 = \h29 -> opcode_fx29(m, op)
                      [] low8 = \h33 -> opcode_fx33(m, op)
                      [] low8 = \h55 -> opcode_fx55(m, op)
                      [] low8 = \h65 -> opcode_fx65(m, op)
                      [] OTHER -> m
               [] OTHER -> m

\* The two bytes at the program counter, merged; -1 when reading them panics.
Fetch(m) ==
    IF m.program_counter + 1 > MEMORY_SIZE - 1 THEN -1
    ELSE BitOr(m.memory[m.program_counter] * 256, m.memory[m.program_counter + 1])

tick_timers_wrapping(m) ==
    [m EXCEPT !.delay_timer = AsU8(m.delay_timer + U8 - 1),
              !.sound_timer = IF m.sound_timer > 0 THEN m.sound_timer - 1 ELSE m.sound_timer]

\* The timers, each decremented if it has been set.
tick_timers(m) ==
    [m EXCEPT !.delay_timer = IF m.delay_timer > 0 THEN m.delay_timer - 1 ELSE m.delay_timer,
              !.sound_timer = IF m.sound_timer > 0 THEN m.sound_timer - 1 ELSE m.sound_timer]

cycle_tick_first(m) ==
    IF Fetch(m) = -1 THEN Panic(m)
    ELSE decode_and_execute(
            [tick_timers(m) EXCEPT !.program_counter = m.program_counter + 2], Fetch(m))

cycle(m) ==
    IF Fetch(m) = -1 THEN Panic(m)
    ELSE LET executed == decode_and_execute(
                    [m EXCEPT !.program_counter = m.program_counter + 2], Fetch(m))
         IN  IF executed.panicked THEN executed ELSE tick_timers(executed)

\* The key presses and releases the host applies after a cycle: held[k] is the
\* state key k is left in, for the keys the events name.
update_keypad(m, held) ==
    [m EXCEPT !.keypad = [k \in 0..15 |->
                            IF k \in DOMAIN held THEN held[k] ELSE m.keypad[k]]]

\* ------------------------------------------------------------- histories

IsCall(op) == op \div 4096 = 2
IsRet(op) == op = 238
IsStore(op) == op \div 4096 = 15 /\ op % 256 = 85
IsLoad(op) == op \div 4096 = 15 /\ op % 256 = 101
IsRnd(op) == op \div 4096 = 12

calls_after(before, op, after) ==
    IF after.panicked THEN calls
    ELSE IF IsCall(op)
         THEN Append(calls, [at |-> before.program_counter,
                             depth |-> before.stack_pointer])
    ELSE IF IsRet(op) /\ Len(calls) > 0 THEN SubSeq(calls, 1, Len(calls) - 1)
    ELSE calls

returned_after(op, after) ==
    IF ~after.panicked /\ IsRet(op) /\ Len(calls) > 0
    THEN <<calls[Len(calls)]>> ELSE <<>>

saved_after(before, op, after) ==
    IF after.panicked THEN <<>>
    ELSE IF IsStore(op)
         THEN <<[x |-> (op \div 256) % 16, index |-> before.index,
                 registers |-> before.registers]>>
    ELSE IF saved # <<>>
            /\ (after.index # saved[1].index
                \/ \E a \in saved[1].index..(saved[1].index + saved[1].x) :
                        after.memory[a] # before.memory[a])
         THEN <<>>
    ELSE saved

IsSetDelay(op) == op \div 4096 = 15 /\ op % 256 = 21
IsSetSound(op) == op \div 4096 = 15 /\ op % 256 = 24

\* What is known of a timer after a cycle: the value n the cycle wrote to it,
\* or one more completed cycle since the last write, counted up to n.
armed_after(last, sets, before, op, after) ==
    IF after.panicked THEN last
    ELSE IF sets THEN <<[n |-> before.registers[(op \div 256) % 16], k |-> 0]>>
    ELSE IF last # <<>>
         THEN <<[n |-> last[1].n,
                 k |-> IF last[1].k < last[1].n THEN last[1].k + 1 ELSE last[1].k]>>
    ELSE last

\* ------------------------------------------------------------------ main

Init ==
    /\ chippy = initialize
    /\ overflow_checks \in BOOLEAN
    /\ main_pc = "load_rom"
    /\ opcode = -1
    /\ pre = initialize
    /\ calls = <<>>
    /\ returned = <<>>
    /\ saved = <<>>
    /\ rom_file = <<>>
    /\ armed = [delay |-> <<>>, sound |-> <<>>]

\* main reads the ROM file, whatever it holds, into memory.
LoadRom(roms) ==
    /\ main_pc = "load_rom"
    /\ \E rom_contents \in roms :
            /\ chippy' = load_rom(chippy, rom_contents)
            /\ rom_file' = rom_contents
    /\ main_pc' = "event_loop"
    /\ UNCHANGED <<overflow_checks, opcode, pre, calls, returned, saved, armed>>

\* One run of the event-loop closure: a cycle, then the key events applied
\* to the keypad. The generator may return any byte to RND.
Event(keys) ==
    /\ main_pc = "event_loop"
    /\ ~chippy.panicked
    /\ \E r \in (IF Fetch(chippy) # -1 /\ IsRnd(Fetch(chippy)) THEN 0..255 ELSE {chippy.rng}),
          held \in [keys -> BOOLEAN] :
            LET before == [chippy EXCEPT !.rng = r]
                after == cycle(before)
            IN  /\ chippy' = IF after.panicked THEN after ELSE update_keypad(after, held)
                /\ opcode' = Fetch(before)
                /\ pre' = before
                /\ calls' = calls_after(before, Fetch(before), after)
                /\ returned' = returned_after(Fetch(before), after)
                /\ saved' = saved_after(before, Fetch(before), after)
                /\ armed' = [delay |-> armed_after(armed.delay, IsSetDelay(Fetch(before)),
                                                  before, Fetch(before), after),
                             sound |-> armed_after(armed.sound, IsSetSound(Fetch(before)),
                                                  before, Fetch(before), after)]
    /\ UNCHANGED <<overflow_checks, main_pc, rom_file>>

\* ------------------------------------------------------------ ROM families

\* The bytes of a sequence of opcodes, high byte first.
Prog(ws) ==
    [i \in 1..(2 * Len(ws)) |->
        IF i % 2 = 1 THEN ws[(i + 1) \div 2] \div 256 ELSE ws[i \div 2] % 256]

\* A jump to itself at the address after n opcodes.
Halt(n) == 4096 + ROM_START_ADDRESS + 2 * n

Samples == (0..Edge) \cup ((127 - Edge)..(128 + Edge)) \cup ((255 - Edge)..255)

RegPairs == {<<0, 1>>, <<2, 2>>, <<3, 15>>, <<15, 3>>}

AluOps == {4, 5, 6, 7, 14}

\* Vx := a; Vy := b; 8xyN.
AluRoms ==
    {Prog(<<24576 + 256 * xy[1] + a, 24576 + 256 * xy[2] + b,
            32768 + 256 * xy[1] + 16 * xy[2] + n, Halt(3)>>) :
        xy \in RegPairs, a \in Samples, b \in Samples, n \in AluOps}

NextAlu == LoadRom(AluRoms) \/ Event({})
SpecAlu == Init /\ [][NextAlu]_vars

\* Fx0A behind a running delay timer: Vx := MaxWait; DT := Vx; Vx := key.
Keys == {1, 7, 15}

KeyRoms ==
    {Prog(<<24576 + 256 * x + MaxWait, 61461 + 256 * x, 61450 + 256 * x, Halt(3)>>) :
        x \in {0, 15}}

NextKey == LoadRom(KeyRoms) \/ Event(Keys)
SpecKey == Init /\ [][NextKey]_vars

\* A chain of d nested subroutines, six bytes apart: each calls the next and
\* returns; the innermost returns at once, the outermost call is followed by
\* a halt. Also a return with no call open.
CallRom(d) ==
    Prog([j \in 1..(3 * d + 1) |->
            LET i == (j - 1) \div 3
                r == (j - 1) % 3
            IN  IF i = d THEN 238
                ELSE IF r = 0 THEN 8192 + ROM_START_ADDRESS + 6 * (i + 1)
                ELSE IF r = 1 THEN (IF i = 0 THEN Halt(1) ELSE 238)
                ELSE 0])

CallRoms == {CallRom(d) : d \in 0..MaxDepth}

NextCall == LoadRom(CallRoms) \/ Event({})
SpecCall == Init /\ [][NextCall]_vars

\* V0, V1, VF := 0x11, 0x22, 0x33; I := addr; Fx55; V0, V1, VF := 0xAA, 0xBB,
\* 0xCC; one instruction more; Fx65.
Between == {0, 61491, 61470, 33044}

StoreAddrs == {768, MEMORY_SIZE - 16, MEMORY_SIZE - 2, MEMORY_SIZE - 1}

StoreRoms ==
    {Prog(<<24593, 24866, 28467, 40960 + addr, 61525 + 256 * x,
            24746, 25019, 28620, mid, 61541 + 256 * x, Halt(10)>>) :
        x \in {0, 1, 15}, addr \in StoreAddrs, mid \in Between}

NextStore == LoadRom(StoreRoms) \/ Event({})
SpecStore == Init /\ [][NextStore]_vars

\* V0, V1 := a position; I := glyph of digit V2; draw n rows; V0 += dx; draw
\* again; clear. Positions on screen, wrapped from beyond it, across the right
\* edge and across the bottom edge.
DrawAt == {<<0, 0>>, <<56, 27>>, <<70, 40>>, <<60, 10>>, <<10, 30>>}

DrawRoms ==
    {Prog(<<24576 + at[1], 24832 + at[2], 25088 + digit, 61993, 53264 + n,
            28672 + dx, 53264 + n, 224, Halt(8)>>) :
        at \in DrawAt, digit \in {2, 11}, n \in {0, 1, 5}, dx \in {0, 2}}

\* VA := 2; I := glyph of digit VA; draw 5 rows at (V0, VA).
GlyphRom == Prog(<<27138, 64041, 53413>>)

\* The ROM files of the drawing runs: the sprite programs and the glyph program.
DrawAndGlyphRoms == DrawRoms \cup {GlyphRom}

NextDraw == LoadRom(DrawAndGlyphRoms) \/ Event({})
SpecDraw == Init /\ [][NextDraw]_vars

\* V0 := a; V1 := b; DT := V0; ST := V1; V2 := DT; then idle.
TimerSamples == {0, 1, MaxWait, 255}

TimerRoms ==
    {Prog(<<24576 + a, 24832 + b, 61461, 61720, 61959, Halt(5)>>) :
        a \in TimerSamples, b \in TimerSamples}

NextTimer == LoadRom(TimerRoms) \/ Event({})
SpecTimer == Init /\ [][NextTimer]_vars

\* Vx := 0xFF; Vx := random AND kk.
RndRoms ==
    {Prog(<<24576 + 256 * x + 255, 49152 + 256 * x + kk, Halt(2)>>) :
        x \in {0, 15}, kk \in {0, 165, 255}}

NextRnd == LoadRom(RndRoms) \/ Event({})
SpecRnd == Init /\ [][NextRnd]_vars

\* V0 := a; V1 := b; V2 := 5; DT := V2; one opcode outside the instruction
\* set; a halt at each of the two places the cycle can go on from.
UnknownOps ==
    {\h0000, \h0123, \h00E1, \h5011, \h501F, \h9011, \h8018, \h801F,
     \hE09F, \hE100, \hF000, \hF1FF, \hF166}

UnknownRoms ==
    {Prog(<<\h6000 + a, \h6100 + b, \h6205, \hF215, unknown, Halt(5), Halt(6)>>) :
        a \in {0, 1}, b \in {0, 1}, unknown \in UnknownOps}

NextUnknown == LoadRom(UnknownRoms) \/ Event({})
SpecUnknown == Init /\ [][NextUnknown]_vars

\* V0 := a; jump to nnn + V0. The opcode after the jump is a jump to itself.
JumpTargets == {\h0F0, \h200, \h2FC}

JumpOffsets == {0, 4, 32}

JumpRoms ==
    {Prog(<<\h6000 + a, \hB000 + nnn, Halt(2)>>) :
        a \in JumpOffsets, nnn \in JumpTargets}

NextJump == LoadRom(JumpRoms) \/ Event({})
SpecJump == Init /\ [][NextJump]_vars


\* Vx := a; Vy := b; one of SE Vx, kk / SNE Vx, kk / SE Vx, Vy / SNE Vx, Vy; the
\* two opcodes after it are jumps to themselves.
SkipValues == {0, 1, 255}

SkipPairs == {<<0, 1>>, <<2, 2>>, <<15, 3>>}

SkipOps(x, y) ==
    {\h3000 + 256 * x + kk : kk \in SkipValues}
        \cup {\h4000 + 256 * x + kk : kk \in SkipValues}
        \cup {\h5000 + 256 * x + 16 * y, \h9000 + 256 * x + 16 * y}

SkipRomsOf(x, y) ==
    {Prog(<<\h6000 + 256 * x + a, \h6000 + 256 * y + b, skip, Halt(3), Halt(4)>>) :
        a \in SkipValues, b \in SkipValues, skip \in SkipOps(x, y)}

SkipRoms == UNION {SkipRomsOf(xy[1], xy[2]) : xy \in SkipPairs}

NextSkip == LoadRom(SkipRoms) \/ Event({})
SpecSkip == Init /\ [][NextSkip]_vars


\* V3 := a; I := i; store the decimal digits of V3 at I, I + 1, I + 2.
BcdAddrs == {\h300, MEMORY_SIZE - 3, MEMORY_SIZE - 2}

BcdRoms ==
    {Prog(<<\h6300 + a, \hA000 + i, \hF333, Halt(3)>>) :
        a \in 0..255, i \in BcdAddrs}

NextBcd == LoadRom(BcdRoms) \/ Event({})
SpecBcd == Init /\ [][NextBcd]_vars


\* Vx := d; I := address of the glyph of digit Vx. Besides the sixteen digits,
\* d takes values whose address is the last that fits in u8 and the first that
\* does not.
FontDigits == (0..15) \cup {16, 35, 36, 52}

FontRoms ==
    {Prog(<<\h6000 + 256 * x + d, \hF029 + 256 * x, Halt(2)>>) :
        x \in {0, 15}, d \in FontDigits}

NextFont == LoadRom(FontRoms) \/ Event({})
SpecFont == Init /\ [][NextFont]_vars


\* ROM files by length: empty, one byte, a short program, the longest that
\* fits above 0x200 and one byte more. The long ones begin with a jump to
\* itself and end in a byte that is not zero.
LongRom(k) ==
    [i \in 1..k |-> IF i = 1 THEN \h12 ELSE IF i = k THEN \hFF ELSE 0]

LoadRoms ==
    {<<>>, <<\h12>>, Prog(<<\h60AB, \hF015, Halt(2)>>),
     LongRom(MEMORY_SIZE - ROM_START_ADDRESS),
     LongRom(MEMORY_SIZE - ROM_START_ADDRESS + 1)}

NextLoad == LoadRom(LoadRoms) \/ Event({})
SpecLoad == Init /\ [][NextLoad]_vars


\* ---------------------------------------------------------------- claims

\* The last cycle fetched an opcode and ran to its end.
Stepped == opcode # -1 /\ ~chippy.panicked

X == (opcode \div 256) % 16
Y == (opcode \div 16) % 16
KK == opcode % 256
NNN == opcode % 4096
N == opcode % 16

Is8xy(n) == opcode \div 4096 = 8 /\ opcode % 16 = n
IsFx(kk) == opcode \div 4096 = 15 /\ opcode % 256 = kk

\* The registers other than those in `written` are as before the cycle.
RegistersKeptExcept(written) ==
    \A i \in 0..15 : i \notin written => chippy.registers[i] = pre.registers[i]

\* C1: after 8xy4 (x # F), Vx = (Vx + Vy) mod 256 and VF = 1 exactly when the
\* unreduced sum exceeds 255.
C1_AddCarry ==
    (Stepped /\ Is8xy(4) /\ X # 15) =>
        /\ chippy.registers[X] = (pre.registers[X] + pre.registers[Y]) % 256
        /\ chippy.registers[15] =
                (IF pre.registers[X] + pre.registers[Y] > 255 THEN 1 ELSE 0)

\* C2: after 8xy5 (x # F), Vx = (Vx - Vy) mod 256 and VF = 1 exactly when
\* Vx >= Vy held before, Vx = Vy included.
C2_SubNoBorrow ==
    (Stepped /\ Is8xy(5) /\ X # 15) =>
        /\ chippy.registers[X] = (pre.registers[X] - pre.registers[Y] + 256) % 256
        /\ chippy.registers[15] =
                (IF pre.registers[X] >= pre.registers[Y] THEN 1 ELSE 0)

PressedBefore == {k \in 0..15 : pre.keypad[k]}

\* C3: a cycle on Fx0A with no key pressed leaves the program counter and all
\* registers as they were, however often it is repeated; with a key pressed
\* it advances the program counter by 2 and sets Vx to the lowest pressed key.
C3_WaitForKey ==
    (Stepped /\ IsFx(10)) =>
        IF PressedBefore = {}
        THEN /\ chippy.program_counter = pre.program_counter
             /\ chippy.registers = pre.registers
        ELSE /\ chippy.program_counter = pre.program_counter + 2
             /\ \A k \in PressedBefore : chippy.registers[X] <= k
             /\ chippy.registers[X] \in PressedBefore
             /\ RegistersKeptExcept({X})

\* Fx0A has waited through several cycles and then taken the lowest of two
\* pressed keys.
C3_Witness ==
    /\ Stepped /\ IsFx(10)
    /\ pre.delay_timer < MaxWait - 2
    /\ Cardinality(PressedBefore) >= 2
    /\ chippy.program_counter = pre.program_counter + 2
    /\ chippy.registers[X] = 7

\* C4: a return brings the program counter to the instruction after the
\* call it closes and the stack pointer to its value before that call; calls
\* are closed last opened first.
C4_CallReturn ==
    (Stepped /\ IsRet(opcode)) =>
        /\ returned # <<>>
        /\ chippy.program_counter = returned[1].at + 2
        /\ chippy.stack_pointer = returned[1].depth
        /\ \A i \in 1..Len(calls) : calls[i].depth < returned[1].depth

\* A return from the sixteenth nested call, other calls still open.
C4_Witness ==
    /\ Stepped /\ IsRet(opcode)
    /\ pre.stack_pointer = STACK_SIZE
    /\ Len(calls) = STACK_SIZE - 1
    /\ chippy.program_counter = returned[1].at + 2
    /\ chippy.stack_pointer = STACK_SIZE - 1

\* C5: Fx65 after Fx55 with the same x, with I and memory[I..I+x] untouched in
\* between, gives V0..Vx the values they had at the Fx55, whatever they held
\* since; neither instruction changes I or a register above Vx.
C5_StoreLoadRoundTrip ==
    /\ (Stepped /\ IsLoad(opcode) /\ saved # <<>> /\ saved[1].x = X) =>
            \A i \in 0..X : chippy.registers[i] = saved[1].registers[i]
    /\ (Stepped /\ (IsLoad(opcode) \/ IsStore(opcode))) =>
            /\ chippy.index = pre.index
            /\ \A i \in 0..15 : i > X => chippy.registers[i] = pre.registers[i]

\* V0..VF, stored at the last sixteen bytes of memory and overwritten since,
\* are back.
C5_Witness ==
    /\ Stepped /\ IsLoad(opcode)
    /\ saved # <<>> /\ saved[1].x = X /\ X = 15
    /\ saved[1].index + X = MEMORY_SIZE - 1
    /\ \A i \in {0, 1, 15} : pre.registers[i] # saved[1].registers[i]
    /\ \A i \in {0, 1, 15} : chippy.registers[i] = saved[1].registers[i]
    /\ chippy.registers[15] = 51

IsDraw(op) == op \div 4096 = 13

\* Bit b of v, bit 0 the lowest.
Bit(v, b) == (v \div (2 ^ b)) % 2

\* The framebuffer index of column c, row r of the sprite the last cycle drew,
\* and whether the sprite has that pixel set.
SpritePos(r, c) ==
    ((pre.registers[Y] % 32) + r) * 64 + (pre.registers[X] % 64) + c
SpriteSet(r, c) == Bit(pre.memory[pre.index + r], 7 - c) = 1

\* C6: after Dxyn, VF = 1 exactly when a set sprite pixel met a framebuffer
\* pixel that was on before the draw; so drawing a sprite twice at one place
\* ends with VF = 1.
C6_Collision ==
    (Stepped /\ IsDraw(opcode)) =>
        chippy.registers[15] =
            (IF \E r \in 0..(N - 1), c \in 0..7 :
                    SpriteSet(r, c) /\ pre.display_memory[SpritePos(r, c)] = 255
             THEN 1 ELSE 0)

\* The loaded program is exactly rom: memory from 0x200 on holds its bytes and
\* then zeros.
LoadedIs(rom) ==
    \A a \in ROM_START_ADDRESS..(MEMORY_SIZE - 1) :
        chippy.memory[a] =
            (IF a - ROM_START_ADDRESS < Len(rom) THEN rom[a - ROM_START_ADDRESS + 1] ELSE 0)

AfterGlyphRom ==
    /\ LoadedIs(<<106, 2, 250, 41, 208, 165>>)
    /\ opcode = 53413
    /\ pre.program_counter = 516
    /\ ~chippy.panicked

GlyphOfTwo == <<240, 16, 240, 128, 240>>

\* C7: three cycles of 6A02 FA29 D0A5 on a fresh machine leave the rows of the
\* digit 2 at columns 0..7 of rows 2..6, highest bit leftmost, on = 0xFF, all
\* other pixels 0x00 and VF = 0.
C7_DrawsDigitTwo ==
    AfterGlyphRom =>
        /\ chippy.program_counter = 518
        /\ \A p \in 0..2047 :
                chippy.display_memory[p] =
                    (IF p \div 64 \in 2..6 /\ p % 64 \in 0..7
                        /\ Bit(GlyphOfTwo[p \div 64 - 1], 7 - (p % 64)) = 1
                     THEN 255 ELSE 0)
        /\ chippy.registers[15] = 0

\* The third cycle of that program is done and the top-left pixel of the
\* glyph is lit.
C7_Witness ==
    /\ AfterGlyphRom
    /\ chippy.registers[10] = 2 /\ chippy.registers[0] = 0
    /\ chippy.display_memory[2 * 64] = 255
    /\ chippy.display_memory[3 * 64 + 3] = 255
    /\ chippy.display_memory[5 * 64] = 255

Dec(t) == IF t > 0 THEN t - 1 ELSE 0

\* C8: a cycle ends with each timer one below its value after the instruction
\* if that was nonzero and at 0 if it was 0; no timer wraps to 255 and neither
\* depends on the other.
C8_TimersTick ==
    Stepped =>
        /\ chippy.delay_timer =
                Dec(IF IsFx(21) THEN pre.registers[X] ELSE pre.delay_timer)
        /\ chippy.sound_timer =
                Dec(IF IsFx(24) THEN pre.registers[X] ELSE pre.sound_timer)

\* One timer rests at 0 while the other counts down.
C8_Witness ==
    /\ Stepped /\ ~IsFx(21) /\ ~IsFx(24)
    /\ pre.delay_timer = 0 /\ chippy.delay_timer = 0
    /\ pre.sound_timer > 1 /\ chippy.sound_timer = pre.sound_timer - 1

\* C9: after 00E0 every framebuffer pixel is 0x00, and the registers, memory,
\* the stack and the index register are as before.
C9_ClearScreen ==
    (Stepped /\ opcode = 224) =>
        /\ \A p \in 0..2047 : chippy.display_memory[p] = 0
        /\ chippy.registers = pre.registers
        /\ chippy.memory = pre.memory
        /\ chippy.stack = pre.stack
        /\ chippy.index = pre.index

\* A framebuffer with pixels lit in its lower half has been cleared.
C9_Witness ==
    /\ Stepped /\ opcode = 224
    /\ \E p \in 1024..2047 : pre.display_memory[p] = 255
    /\ \A p \in 0..2047 : chippy.display_memory[p] = 0

\* C10: after Cxkk, Vx is the byte the generator returned ANDed with kk: a bit
\* clear in kk is clear in Vx, and kk = 0x00 gives Vx = 0.
C10_RandomMasked ==
    (Stepped /\ IsRnd(opcode)) =>
        /\ \A b \in 0..7 : Bit(chippy.registers[X], b) = Bit(pre.rng, b) * Bit(KK, b)
        /\ chippy.registers[X] < 256
        /\ KK = 0 => chippy.registers[X] = 0

\* The generator returned 0xFF, the mask was 0x00 and Vx went from 0xFF to 0.
C10_Witness ==
    /\ Stepped /\ IsRnd(opcode)
    /\ KK = 0 /\ pre.rng = 255 /\ pre.registers[X] = 255
    /\ chippy.registers[X] = 0

\* The instruction set: whether op is one of its operations.
Defined(op) ==
    LET hi == op \div 4096
        lo4 == op % 16
        lo8 == op % 256
    IN  \/ op \in {224, 238}
        \/ hi \in {1, 2, 3, 4, 6, 7, 10, 11, 12, 13}
        \/ hi \in {5, 9} /\ lo4 = 0
        \/ hi = 8 /\ lo4 \in (0..7) \cup {14}
        \/ hi = 14 /\ lo8 \in {158, 161}
        \/ hi = 15 /\ lo8 \in {7, 10, 21, 24, 30, 41, 51, 85, 101}

\* C11: a cycle on an opcode outside the instruction set advances the program
\* counter by 2 and changes no register, index, memory byte, stack slot,
\* stack pointer or framebuffer pixel.
C11_UnknownIsNoOp ==
    (Stepped /\ ~Defined(opcode)) =>
        /\ chippy.program_counter = pre.program_counter + 2
        /\ chippy.registers = pre.registers
        /\ chippy.index = pre.index
        /\ chippy.memory = pre.memory
        /\ chippy.stack = pre.stack
        /\ chippy.stack_pointer = pre.stack_pointer
        /\ chippy.display_memory = pre.display_memory

\* C13: the stack pointer stays within 0..16 and 2nnn and 00EE use stack
\* slots 0..15 only; a 17th nested call and a return on an empty stack do not
\* abort the cycle.
C13_StackRecoverable ==
    /\ chippy.stack_pointer \in 0..STACK_SIZE
    /\ (opcode # -1 /\ (IsCall(opcode) \/ IsRet(opcode))) =>
            /\ ~chippy.panicked
            /\ IsCall(opcode) => pre.stack_pointer \in 0..(STACK_SIZE - 1)
            /\ IsRet(opcode) => pre.stack_pointer - 1 \in 0..(STACK_SIZE - 1)

\* A cycle is about to run.
Running == main_pc = "event_loop" /\ ~chippy.panicked

\* C14: whenever a cycle runs, the addresses it uses are inside memory and the
\* framebuffer: the two bytes of the opcode, the sprite rows and pixels of
\* Dxyn, I..I+2 of Fx33 and I..I+x of Fx55 and Fx65.
C14_AccessesInBounds ==
    Running =>
        /\ chippy.program_counter + 1 <= MEMORY_SIZE - 1
        /\ LET op == 256 * chippy.memory[chippy.program_counter]
                        + chippy.memory[chippy.program_counter + 1]
               x == (op \div 256) % 16
               y == (op \div 16) % 16
               n == op % 16
           IN  /\ IsDraw(op) =>
                    \A r \in 0..(n - 1) :
                        /\ chippy.index + r <= MEMORY_SIZE - 1
                        /\ \A c \in 0..7 :
                             ((chippy.registers[y] % 32) + r) * 64
                                + (chippy.registers[x] % 64) + c <= 2047
               /\ (op \div 4096 = 15 /\ op % 256 = 51) =>
                    chippy.index + 2 <= MEMORY_SIZE - 1
               /\ (IsStore(op) \/ IsLoad(op)) =>
                    chippy.index + x <= MEMORY_SIZE - 1

\* The sprite the last cycle drew lies wholly on screen.
OnScreen ==
    /\ pre.registers[X] % 64 <= 56
    /\ (pre.registers[Y] % 32) + N <= 32

Toggled(pixel) == IF pixel = 0 THEN 255 ELSE IF pixel = 255 THEN 0 ELSE -1

\* C15: a Dxyn wholly on screen toggles the pixel at column (Vx mod 64) + c,
\* row (Vy mod 32) + r exactly when bit 7 - c of memory[I + r] is set, and
\* leaves every other pixel as it was; drawn twice, a sprite is gone again.
C15_DrawXors ==
    (Stepped /\ IsDraw(opcode) /\ OnScreen) =>
        \A p \in 0..2047 :
            chippy.display_memory[p] =
                (IF \E r \in 0..(N - 1), c \in 0..7 : p = SpritePos(r, c) /\ SpriteSet(r, c)
                 THEN Toggled(pre.display_memory[p])
                 ELSE pre.display_memory[p])

\* A five-row glyph drawn two columns to the right of itself: pixels go off,
\* pixels come on and pixels outside the second sprite stay lit.
C15_Witness ==
    /\ Stepped /\ IsDraw(opcode) /\ OnScreen /\ N = 5
    /\ \E p \in 0..2047 : pre.display_memory[p] = 255 /\ chippy.display_memory[p] = 0
    /\ \E p \in 0..2047 : pre.display_memory[p] = 0 /\ chippy.display_memory[p] = 255
    /\ \E p \in 0..2047 : pre.display_memory[p] = 255 /\ chippy.display_memory[p] = 255

\* Reached as well: the same sprite drawn twice at one on-screen place leaves
\* the framebuffer as it was before the first draw (empty).
DrawnTwiceErased ==
    /\ Stepped /\ IsDraw(opcode) /\ OnScreen
    /\ N = 5 /\ pre.registers[X] = 56 /\ pre.registers[Y] = 27
    /\ pre.display_memory[27 * 64 + 56] = 255
    /\ \A p \in 0..2047 : chippy.display_memory[p] = 0

\* C16: every framebuffer byte is 0x00 or 0xFF, and a cycle that changes a
\* framebuffer byte is a 00E0 or a Dxyn.
C16_PixelsBinary ==
    /\ \A p \in 0..2047 : chippy.display_memory[p] \in {0, 255}
    /\ (opcode # -1 /\ chippy.display_memory # pre.display_memory) =>
            (opcode = 224 \/ IsDraw(opcode))

\* Lit pixels are carried unchanged through a cycle that is neither 00E0 nor
\* Dxyn.
C16_Witness ==
    /\ Stepped /\ opcode # 224 /\ ~IsDraw(opcode)
    /\ \E p \in 0..2047 : chippy.display_memory[p] = 255
    /\ \E p \in 0..2047 : chippy.display_memory[p] = 0
    /\ chippy.display_memory = pre.display_memory


\* C17: after 8xy6 (x # F), VF is the least significant bit of the value Vx
\* held before the shift and Vx is that value halved, rounded down.
C17_ShiftRightFlag ==
    (Stepped /\ Is8xy(6) /\ X # 15) =>
        /\ chippy.registers[15] = pre.registers[X] % 2
        /\ chippy.registers[X] = pre.registers[X] \div 2

\* The last cycle fetched 8xy7, whether or not it ran to its end.
Fetched8xy7 == opcode # -1 /\ Is8xy(7)

\* C18: 8xy7 (x # F) completes, with Vx = (Vy - Vx) mod 256 and VF = 1 exactly
\* when Vy >= Vx held before, Vy = Vx included.
C18_SubReverse ==
    (Fetched8xy7 /\ X # 15) =>
        /\ ~chippy.panicked
        /\ chippy.registers[X] = (pre.registers[Y] - pre.registers[X] + 256) % 256
        /\ chippy.registers[15] =
                (IF pre.registers[Y] >= pre.registers[X] THEN 1 ELSE 0)

\* C20: after 8xyE, for every x in 0..F, VF is the most significant bit of the
\* value Vx held before the shift; for x # F, Vx is twice that value mod 256.
C20_ShiftLeftFlag ==
    (Stepped /\ Is8xy(14)) =>
        /\ chippy.registers[15] = pre.registers[X] \div 128
        /\ X # 15 => chippy.registers[X] = (2 * pre.registers[X]) % 256


\* C19: after Bnnn, program_counter is the full 12-bit address nnn plus V0.
C19_JumpOffset ==
    (Stepped /\ opcode \div 4096 = 11) =>
        chippy.program_counter = NNN + pre.registers[0]


\* The last cycle executed 3xkk, 4xkk, 5xy0 or 9xy0.
IsSkip ==
    \/ opcode \div 4096 \in {3, 4}
    \/ opcode \div 4096 \in {5, 9} /\ N = 0

\* The condition of the skip instruction, on the registers before the cycle.
SkipCondition ==
    CASE opcode \div 4096 = 3 -> pre.registers[X] = KK
      [] opcode \div 4096 = 4 -> pre.registers[X] # KK
      [] opcode \div 4096 = 5 -> pre.registers[X] = pre.registers[Y]
      [] opcode \div 4096 = 9 -> pre.registers[X] # pre.registers[Y]

\* C21: a skip instruction at address a leaves program_counter = a + 4 when
\* its condition holds and a + 2 otherwise, and changes no register, memory
\* byte, stack slot or framebuffer pixel.
C21_SkipFrame ==
    (Stepped /\ IsSkip) =>
        /\ chippy.program_counter =
                pre.program_counter + (IF SkipCondition THEN 4 ELSE 2)
        /\ chippy.registers = pre.registers
        /\ chippy.memory = pre.memory
        /\ chippy.stack = pre.stack
        /\ chippy.display_memory = pre.display_memory

\* SNE Vx, kk has skipped: Vx differs from kk.
C21_Witness ==
    /\ Stepped /\ opcode \div 4096 = 4
    /\ pre.registers[X] # KK
    /\ chippy.program_counter = pre.program_counter + 4

\* Each skip instruction is met with its condition true and with it false.
SkipTaken(h) == Stepped /\ IsSkip /\ opcode \div 4096 = h /\ SkipCondition
SkipNotTaken(h) == Stepped /\ IsSkip /\ opcode \div 4096 = h /\ ~SkipCondition


\* C22: after Fx33 with I <= 4093, the bytes at I, I + 1, I + 2 are decimal
\* digits with 100 * memory[I] + 10 * memory[I + 1] + memory[I + 2] = Vx; Vx, I
\* and every other memory byte are unchanged.
C22_BcdDigits ==
    (opcode # -1 /\ IsFx(\h33) /\ pre.index <= MEMORY_SIZE - 3) =>
        /\ ~chippy.panicked
        /\ \A k \in 0..2 : chippy.memory[pre.index + k] \in 0..9
        /\ 100 * chippy.memory[pre.index] + 10 * chippy.memory[pre.index + 1]
                + chippy.memory[pre.index + 2] = pre.registers[X]
        /\ chippy.registers[X] = pre.registers[X]
        /\ chippy.index = pre.index
        /\ \A a \in 0..(MEMORY_SIZE - 1) :
                a \notin pre.index..(pre.index + 2) => chippy.memory[a] = pre.memory[a]

\* A three-digit value has been stored at the last three bytes of memory.
C22_Witness ==
    /\ Stepped /\ IsFx(\h33)
    /\ pre.index = MEMORY_SIZE - 3
    /\ pre.registers[X] = 109
    /\ chippy.memory[MEMORY_SIZE - 3] = 1
    /\ chippy.memory[MEMORY_SIZE - 2] = 0
    /\ chippy.memory[MEMORY_SIZE - 1] = 9


\* The standard hexadecimal digit patterns, five rows per digit.
StandardGlyphs ==
    << <<\hF0, \h90, \h90, \h90, \hF0>>, <<\h20, \h60, \h20, \h20, \h70>>,
       <<\hF0, \h10, \hF0, \h80, \hF0>>, <<\hF0, \h10, \hF0, \h10, \hF0>>,
       <<\h90, \h90, \hF0, \h10, \h10>>, <<\hF0, \h80, \hF0, \h10, \hF0>>,
       <<\hF0, \h80, \hF0, \h90, \hF0>>, <<\hF0, \h10, \h20, \h40, \h40>>,
       <<\hF0, \h90, \hF0, \h90, \hF0>>, <<\hF0, \h90, \hF0, \h10, \hF0>>,
       <<\hF0, \h90, \hF0, \h90, \h90>>, <<\hE0, \h90, \hE0, \h90, \hE0>>,
       <<\hF0, \h80, \h80, \h80, \hF0>>, <<\hE0, \h90, \h90, \h90, \hE0>>,
       <<\hF0, \h80, \hF0, \h80, \hF0>>, <<\hF0, \h80, \hF0, \h80, \h80>> >>

\* The font region 0x50..0x9F is as it was in the initialized machine.
FontUnwritten(m) ==
    \A a \in \h50..\h9F : m.memory[a] = initialize.memory[a]

\* C23: Fx29 with Vx a hexadecimal digit d sets I to 0x50 + 5 * d, and while
\* the font region is unwritten the five bytes there are the rows of digit d.
C23_GlyphAddress ==
    (opcode # -1 /\ IsFx(\h29) /\ pre.registers[X] \in 0..15) =>
        /\ ~chippy.panicked
        /\ chippy.index = \h50 + 5 * pre.registers[X]
        /\ FontUnwritten(pre) =>
                \A r \in 0..4 :
                    chippy.memory[chippy.index + r]
                        = StandardGlyphs[pre.registers[X] + 1][r + 1]

\* I points at the glyph of digit F, the last five bytes of the font region.
C23_Witness ==
    /\ Stepped /\ IsFx(\h29)
    /\ pre.registers[X] = 15
    /\ FontUnwritten(pre)
    /\ chippy.index = \h9B
    /\ chippy.memory[\h9F] = \h80


\* The machine after a ROM of rom's bytes has been copied into initial.
WithProgram(initial, rom) ==
    [initial EXCEPT !.memory =
        [a \in 0..(MEMORY_SIZE - 1) |->
            IF a >= \h200 /\ a - \h200 < Len(rom) THEN rom[a - \h200 + 1]
            ELSE initial.memory[a]]]

\* C24: loading a program of k <= 3584 bytes sets memory[0x200 + i] to byte i
\* of the program for every i in 0..k-1 and changes nothing else: the font
\* bytes, all other memory, the registers, program_counter = 0x200,
\* stack_pointer = 0 and both timers keep their initial values.
C24_LoadFrame ==
    [][(main_pc = "load_rom" /\ main_pc' = "event_loop" /\ Len(rom_file') <= 3584) =>
            /\ chippy' = WithProgram(chippy, rom_file')
            /\ \A a \in \h50..\h9F : chippy'.memory[a] = fontset[a - \h50 + 1]
            /\ chippy'.registers = [i \in 0..15 |-> 0]
            /\ chippy'.program_counter = \h200
            /\ chippy'.stack_pointer = 0
            /\ chippy'.delay_timer = 0 /\ chippy'.sound_timer = 0]_vars

\* The longest program that fits has been loaded: its last byte is the last
\* byte of memory, and no cycle has run yet.
C24_Witness ==
    /\ main_pc = "event_loop" /\ opcode = -1 /\ ~chippy.panicked
    /\ Len(rom_file) = 3584
    /\ chippy.program_counter = \h200
    /\ chippy.memory[MEMORY_SIZE - 1] = \hFF
    /\ chippy.memory[\h200] = \h12
    /\ chippy.memory[\h9F] = \h80


\* The steps completed since a timer was written, at most n - 1 of them
\* counting: the value the timer then holds if it started from n - 1.
Remaining(a) == IF a.n - 1 - a.k > 0 THEN a.n - 1 - a.k ELSE 0

\* C25: the step that executes Fx15 (Fx18) with Vx = n >= 1 ends with the
\* timer at n - 1; k further steps without another Fx15 (Fx18) leave it at
\* max(0, n - 1 - k), so it is 0 from n - 1 further steps on; Fx07 reads the
\* delay timer as it was before that step's decrement.
C25_TimerCountdown ==
    ~chippy.panicked =>
        /\ (armed.delay # <<>> /\ armed.delay[1].n >= 1) =>
                chippy.delay_timer = Remaining(armed.delay[1])
        /\ (armed.sound # <<>> /\ armed.sound[1].n >= 1) =>
                chippy.sound_timer = Remaining(armed.sound[1])
        /\ (Stepped /\ IsFx(\h07)) => chippy.registers[X] = pre.delay_timer

\* The delay timer, set to 255, reaches 0 with the 254th further step, while
\* the sound timer, set to 1, has been 0 since its own Fx18.
C25_Witness ==
    /\ Stepped
    /\ armed.delay # <<>> /\ armed.delay[1].n = 255 /\ armed.delay[1].k = 254
    /\ pre.delay_timer = 1 /\ chippy.delay_timer = 0
    /\ armed.sound # <<>> /\ armed.sound[1].n = 1 /\ chippy.sound_timer = 0

\* Fx07 has read a timer that was still running and went on running.
ReadRunningTimer ==
    /\ Stepped /\ IsFx(\h07)
    /\ chippy.registers[X] = pre.delay_timer
    /\ pre.delay_timer > 1 /\ chippy.delay_timer = pre.delay_timer - 1

=============================================================================
